---- MODULE Spec2Model ----
(***************************************************************************)
(* A model of the HamTextClassifier training tools:                        *)
(*   - train_model.py: extract_features, shannon_entropy, the pattern      *)
(*     regexes, and the train() pipeline with the __main__ exit status;    *)
(*   - generate_data.py: generate_dataset.                                 *)
(* A text is a sequence of one-character strings.  A float is an exact     *)
(* rational <<n, d>> in lowest terms with d > 0; the entropy, which is     *)
(* irrational, is kept in thousandths of a bit.                            *)
(***************************************************************************)
EXTENDS Integers, Sequences, FiniteSets, TLC

VARIABLES
    text,          \* extract_features: the argument of the call
    features,      \* extract_features: the returned dict (a function name -> float)
    called,        \* extract_features: has the call returned
    pc,            \* train / __main__: the next step
    csv,           \* data/train.csv and data/test.csv: their rows
    train_df,      \* train: the loaded training table
    test_df,       \* train: the loaded test table
    X_train_dicts, \* train: the feature maps of the training texts
    X_test_dicts,  \* train: the feature maps of the test texts
    vocabulary,    \* vectorizer: the fitted feature names, in order (<<>> before the fit)
    fitted_schema, \* history: the feature names as the fit left them
    X_train,       \* train: the training vectors
    X_test,        \* train: the test vectors
    model,         \* LogisticRegression: the fitted coefficients and intercept
    accuracy,      \* train: the measured test accuracy
    output,        \* what the process has printed
    disk,          \* the artifact at each path: "none", "old" (there before the run), "new"
    returncode,    \* the compiler's exit status (-1 before it ran)
    gi,            \* train: index of the next golden text of the running loop
    last_fm,       \* train: the feature map of the latest golden text
    last_fv,       \* train: the vector vectorizer.transform returned for it
    golden_pairs,  \* train: the golden pairs so far
    exit_status,   \* the process exit status (-1 while it runs)
    gpc,           \* generate_dataset: the next step
    counts,        \* generate_dataset: the number of passes of each generation loop
    passes,        \* generate_dataset: the passes of the running loop made so far
    samples,       \* generate_dataset: the list samples
    generated,     \* history: samples as the generation loops left it
    shuffles,      \* history: the number of random.shuffle calls made
    train,         \* generate_dataset: the list train
    test,          \* generate_dataset: the list test
    files,         \* data/train.csv and data/test.csv as generate_dataset writes them
    legit,         \* gen_garbage_corrupted: the legitimate text it starts from
    corruption,    \* gen_garbage_corrupted: the draw of random.uniform(0.4, 0.7)
    positions,     \* gen_garbage_corrupted: the positions random.sample returned
    result,        \* gen_garbage_corrupted: the list result
    corrupted,     \* gen_garbage_corrupted: has the call returned
    to_write,      \* the write loop of generate_dataset: the list data
    written_rows,  \* the write loop: the rows handed to writer.writerow after the header
    wrote,         \* the write loop: has it finished
    objects,       \* the dict objects extract_features has created, by object number
    calls,         \* the calls of extract_features made: argument and returned object
    ipc,           \* identifier study: the next step
    kind,          \* identifier study: the generator that made ident
    ident,         \* identifier study: the string the generator returned
    around,        \* identifier study: the characters put before and after it
    itext,         \* identifier study: the text handed to extract_features
    ifeatures      \* identifier study: the map extract_features returned

xvars == <<text, features, called>>

tvars == <<pc, csv, train_df, test_df, X_train_dicts, X_test_dicts, vocabulary,
           fitted_schema, X_train, X_test, model, accuracy, output, disk, returncode,
           gi, last_fm, last_fv, golden_pairs, exit_status>>

gvars == <<gpc, counts, passes, samples, generated, shuffles, train, test, files>>

cvars == <<legit, corruption, positions, result, corrupted>>

wvars == <<to_write, written_rows, wrote>>

kvars == <<objects, calls>>

ivars == <<ipc, kind, ident, around, itext, ifeatures>>

vars == <<xvars, tvars, gvars, cvars, wvars, kvars, ivars>>

\* the state of the call history where single calls are studied
CallsIdle ==
    /\ objects = <<>>
    /\ calls = <<>>
    /\ ipc = "idle"
    /\ kind = "none"
    /\ ident = <<>>
    /\ around = <<>>
    /\ itext = <<>>
    /\ ifeatures = <<>>

\* the state of the write loop's variables where it is studied within generate_dataset
WriteIdle ==
    /\ to_write = <<>>
    /\ written_rows = <<>>
    /\ wrote = FALSE

\* the state of gen_garbage_corrupted's variables where it is not called
CorruptIdle ==
    /\ legit = <<>>
    /\ corruption = <<0, 1>>
    /\ positions = {}
    /\ result = <<>>
    /\ corrupted = FALSE

\* the state of generate_dataset's variables where it does not run
GenIdle ==
    /\ gpc = "idle"
    /\ counts = <<>>
    /\ passes = 0
    /\ samples = <<>> /\ generated = <<>>
    /\ shuffles = 0
    /\ train = <<>> /\ test = <<>>
    /\ files = <<>>

(***************************************************************************)
(* Bounds of the model.                                                    *)
(***************************************************************************)
MaxLen == 4

(***************************************************************************)
(* Characters and Python's str predicates on them (the ASCII range).       *)
(***************************************************************************)
UpperLetters == {"A", "B", "C", "D", "E", "F", "G", "H", "I", "J", "K", "L", "M", "N", "O", "P", "Q", "R", "S", "T", "U", "V", "W", "X", "Y", "Z"}

LowerLetters == {"a", "b", "c", "d", "e", "f", "g", "h", "i", "j", "k", "l", "m", "n", "o", "p", "q", "r", "s", "t", "u", "v", "w", "x", "y", "z"}

DigitChars == {"0", "1", "2", "3", "4", "5", "6", "7", "8", "9"}

WhitespaceChars == {" ", "\t", "\n", "\r", "\f"}

ToUpperMap == "a" :> "A" @@ "b" :> "B" @@ "c" :> "C" @@ "d" :> "D" @@ "e" :> "E" @@ "f" :> "F" @@ "g" :> "G" @@ "h" :> "H" @@ "i" :> "I" @@ "j" :> "J" @@ "k" :> "K" @@ "l" :> "L" @@ "m" :> "M" @@ "n" :> "N" @@ "o" :> "O" @@ "p" :> "P" @@ "q" :> "Q" @@ "r" :> "R" @@ "s" :> "S" @@ "t" :> "T" @@ "u" :> "U" @@ "v" :> "V" @@ "w" :> "W" @@ "x" :> "X" @@ "y" :> "Y" @@ "z" :> "Z"

isalpha(c) == c \in UpperLetters \cup LowerLetters

isdigit(c) == c \in DigitChars

isupper(c) == c \in UpperLetters

isalnum(c) == isalpha(c) \/ isdigit(c)

isspace(c) == c \in WhitespaceChars

upper_char(c) == IF c \in LowerLetters THEN ToUpperMap[c] ELSE c

upper(t) == [i \in 1..Len(t) |-> upper_char(t[i])]

\* sum(1 for c in t if c in S)
CountIn(t, S) == Cardinality({i \in 1..Len(t) : t[i] \in S})

(***************************************************************************)
(* Floats as exact rationals.                                              *)
(***************************************************************************)
RECURSIVE GCD(_, _)
GCD(a, b) == IF b = 0 THEN a ELSE GCD(b, a % b)

Abs(n) == IF n < 0 THEN -n ELSE n

Rat(n, d) == LET g == GCD(Abs(n), d) IN <<n \div g, d \div g>>

Zero == <<0, 1>>

One == <<1, 1>>

RatLE(a, b) == a[1] * b[2] <= b[1] * a[2]

RatLT(a, b) == a[1] * b[2] < b[1] * a[2]

RatMin(a, b) == IF RatLE(a, b) THEN a ELSE b

RatAdd(a, b) == Rat(a[1] * b[2] + b[1] * a[2], a[2] * b[2])

RatMul(a, b) == Rat(a[1] * b[1], a[2] * b[2])

(***************************************************************************)
(* shannon_entropy, in thousandths of a bit.  Log2Micro[k] is log2(k) in   *)
(* millionths, rounded.  -sum p*log2(p) with p = count/length is           *)
(* sum count * (log2(length) - log2(count)) / length.                      *)
(***************************************************************************)
Log2Micro == <<0, 1000000, 1584963, 2000000, 2321928, 2584963, 2807355, 3000000, 3169925, 3321928, 3459432, 3584963, 3700440, 3807355, 3906891, 4000000, 4087463, 4169925, 4247928, 4321928, 4392317, 4459432, 4523562, 4584963, 4643856, 4700440, 4754888, 4807355, 4857981, 4906891, 4954196, 5000000, 5044394, 5087463, 5129283, 5169925, 5209453, 5247928, 5285402, 5321928, 5357552, 5392317, 5426265, 5459432, 5491853, 5523562, 5554589, 5584963, 5614710, 5643856, 5672425, 5700440, 5727920, 5754888, 5781360, 5807355, 5832890, 5857981, 5882643, 5906891, 5930737, 5954196, 5977280, 6000000, 6022368, 6044394, 6066089, 6087463, 6108524, 6129283, 6149747, 6169925, 6189825, 6209453, 6228819, 6247928, 6266787, 6285402, 6303781, 6321928, 6339850, 6357552, 6375039, 6392317, 6409391, 6426265, 6442943, 6459432, 6475733, 6491853, 6507795, 6523562, 6539159, 6554589, 6569856, 6584963, 6599913, 6614710, 6629357, 6643856, 6658211, 6672425, 6686501, 6700440, 6714246, 6727920, 6741467, 6754888, 6768184, 6781360, 6794416, 6807355, 6820179, 6832890, 6845490, 6857981, 6870365, 6882643, 6894818, 6906891, 6918863, 6930737, 6942515, 6954196, 6965784, 6977280, 6988685, 7000000, 7011227, 7022368, 7033423, 7044394, 7055282, 7066089, 7076816, 7087463, 7098032, 7108524, 7118941, 7129283, 7139551, 7149747, 7159871, 7169925, 7179909, 7189825, 7199672, 7209453, 7219169, 7228819, 7238405, 7247928, 7257388, 7266787, 7276124, 7285402, 7294621, 7303781, 7312883, 7321928, 7330917, 7339850, 7348728, 7357552, 7366322, 7375039, 7383704, 7392317, 7400879, 7409391, 7417853, 7426265, 7434628, 7442943, 7451211, 7459432, 7467606, 7475733, 7483816, 7491853, 7499846, 7507795, 7515700, 7523562, 7531381, 7539159, 7546894, 7554589, 7562242, 7569856, 7577429, 7584963, 7592457, 7599913, 7607330, 7614710, 7622052, 7629357, 7636625, 7643856, 7651052, 7658211, 7665336, 7672425, 7679480, 7686501, 7693487, 7700440, 7707359, 7714246, 7721099, 7727920, 7734710, 7741467, 7748193, 7754888, 7761551, 7768184, 7774787, 7781360, 7787903, 7794416, 7800900, 7807355, 7813781, 7820179, 7826548, 7832890, 7839204, 7845490, 7851749, 7857981, 7864186, 7870365, 7876517, 7882643, 7888743, 7894818, 7900867, 7906891, 7912889, 7918863, 7924813, 7930737, 7936638, 7942515, 7948367, 7954196, 7960002, 7965784, 7971544, 7977280, 7982994, 7988685, 7994353, 8000000>>

RECURSIVE SumOver(_, _)
SumOver(S, f) ==
    IF S = {} THEN 0
    ELSE LET x == CHOOSE y \in S : TRUE IN f[x] + SumOver(S \ {x}, f)

shannon_entropy(t) ==
    IF Len(t) = 0 THEN 0
    ELSE LET length == Len(t)
             chars  == {t[i] : i \in 1..length}
             freq   == [ch \in chars |-> CountIn(t, {ch})]
             term   == [ch \in chars |->
                          freq[ch] * (Log2Micro[length] - Log2Micro[freq[ch]])]
         IN  (SumOver(chars, term) \div length) \div 1000

(***************************************************************************)
(* The compiled patterns.  A pattern is searched as re.search does: some   *)
(* start position matches.  \b holds at k (between t[k] and t[k+1]) when   *)
(* exactly one of the two sides is a word character.                       *)
(***************************************************************************)
IsWordChar(c) == isalnum(c) \/ c = "_"

WordAt(t, k) == k >= 1 /\ k <= Len(t) /\ IsWordChar(t[k])

Boundary(t, k) == WordAt(t, k) # WordAt(t, k + 1)

\* t[k] exists and lies in S
In(t, k, S) == k >= 1 /\ k <= Len(t) /\ t[k] \in S

\* t[k] exists and, folded to upper case, lies in S (re.IGNORECASE)
InFold(t, k, S) == k >= 1 /\ k <= Len(t) /\ upper_char(t[k]) \in S

Digits1to5 == {"1", "2", "3", "4", "5"}

Digits1to9 == {"1", "2", "3", "4", "5", "6", "7", "8", "9"}

LettersAtoR == {"A", "B", "C", "D", "E", "F", "G", "H", "I", "J", "K", "L", "M", "N", "O", "P", "Q", "R"}

LettersAtoX == UpperLetters \ {"Y", "Z"}

\* [A-Z]{1,2}[0-9][A-Z]{1,3}
CALLSIGN_RE(t) ==
    \E i \in 1..Len(t) :
        \E p \in 1..2 :
            /\ \A k \in 0..(p - 1) : In(t, i + k, UpperLetters)
            /\ In(t, i + p, DigitChars)
            /\ In(t, i + p + 1, UpperLetters)

\* \b[1-5][1-9][1-9]?\b
RST_RE(t) ==
    \E i \in 1..Len(t) :
        /\ Boundary(t, i - 1)
        /\ In(t, i, Digits1to5)
        /\ In(t, i + 1, Digits1to9)
        /\ \/ In(t, i + 2, Digits1to9) /\ Boundary(t, i + 2)
           \/ Boundary(t, i + 1)

\* \b[A-R]{2}[0-9]{2}(?:[a-x]{2})?\b, re.IGNORECASE
GRID_RE(t) ==
    \E i \in 1..Len(t) :
        /\ Boundary(t, i - 1)
        /\ InFold(t, i, LettersAtoR)
        /\ InFold(t, i + 1, LettersAtoR)
        /\ In(t, i + 2, DigitChars)
        /\ In(t, i + 3, DigitChars)
        /\ \/ /\ InFold(t, i + 4, LettersAtoX)
              /\ InFold(t, i + 5, LettersAtoX)
              /\ Boundary(t, i + 5)
           \/ Boundary(t, i + 3)

\* a variant of CQ_RE without re.IGNORECASE
CQ_RE_CaseSensitive(t) ==
    \E i \in 1..Len(t) :
        /\ Boundary(t, i - 1)
        /\ In(t, i, {"C"})
        /\ In(t, i + 1, {"Q"})
        /\ Boundary(t, i + 1)

\* \bCQ\b, re.IGNORECASE
CQ_RE(t) ==
    \E i \in 1..Len(t) :
        /\ Boundary(t, i - 1)
        /\ InFold(t, i, {"C"})
        /\ InFold(t, i + 1, {"Q"})
        /\ Boundary(t, i + 1)

\* \bDE\b, re.IGNORECASE
DE_RE(t) ==
    \E i \in 1..Len(t) :
        /\ Boundary(t, i - 1)
        /\ InFold(t, i, {"D"})
        /\ InFold(t, i + 1, {"E"})
        /\ Boundary(t, i + 1)

\* \b73\b
SEVENTY_THREE_RE(t) ==
    \E i \in 1..Len(t) :
        /\ Boundary(t, i - 1)
        /\ In(t, i, {"7"})
        /\ In(t, i + 1, {"3"})
        /\ Boundary(t, i + 1)

\* [+-]\d{2}\b
DB_REPORT_RE(t) ==
    \E i \in 1..Len(t) :
        /\ In(t, i, {"+", "-"})
        /\ In(t, i + 1, DigitChars)
        /\ In(t, i + 2, DigitChars)
        /\ Boundary(t, i + 2)

\* \bR(?:RR|R73)\b
RRR_RE(t) ==
    \E i \in 1..Len(t) :
        /\ Boundary(t, i - 1)
        /\ In(t, i, {"R"})
        /\ In(t, i + 1, {"R"})
        /\ \/ In(t, i + 2, {"R"}) /\ Boundary(t, i + 2)
           \/ In(t, i + 2, {"7"}) /\ In(t, i + 3, {"3"}) /\ Boundary(t, i + 3)

(***************************************************************************)
(* extract_features.                                                       *)
(***************************************************************************)
LenNorm == 200

EntropyNorm == 8

MaxWordLenNorm == 20

AvgWordLenNorm == 10

WordCountNorm == 20

\* features[key] = v
Put(f, k, v) == (k :> v) @@ f

\* features.get(key, default)
Get(f, k, default) == IF k \in DOMAIN f THEN f[k] ELSE default

NoFeatures == [x \in {} |-> Zero]

\* "".join(w): the window as one string
RECURSIVE Join(_)
Join(w) == IF Len(w) = 0 THEN "" ELSE Head(w) \o Join(Tail(w))

\* a variant of the pass without the all(...) test
NgramStep_EveryWindow(U, n, prefix, i, feats) ==
    LET gram == SubSeq(U, i, i + n - 1)
        key  == prefix \o Join(gram)
    IN  Put(feats, key, RatAdd(Get(feats, key, Zero), One))

\* one pass of the body of the bigram (n = 2) or trigram (n = 3) loop, at index i
\* (1-based): the window, the all(...) test, features[key] = features.get(key, 0.0) + 1.0
NgramStep(U, n, prefix, i, feats) ==
    LET gram == SubSeq(U, i, i + n - 1)
        ok   == \A k \in 1..n : isalnum(gram[k]) \/ gram[k] = " "
        key  == prefix \o Join(gram)
    IN  IF ok THEN Put(feats, key, RatAdd(Get(feats, key, Zero), One)) ELSE feats

\* the passes lo..hi of the loop, in increasing order of the index (the range is
\* halved so that the evaluation stays shallow; the order of the passes is the loop's)
RECURSIVE NgramRange(_, _, _, _, _, _)
NgramRange(U, n, prefix, lo, hi, feats) ==
    IF lo > hi THEN feats
    ELSE IF lo = hi THEN NgramStep(U, n, prefix, lo, feats)
    ELSE LET mid   == (lo + hi) \div 2
             first == NgramRange(U, n, prefix, lo, mid, feats)
         IN  \* the test is always true: it makes TLC evaluate first here
             IF first = first THEN NgramRange(U, n, prefix, mid + 1, hi, first)
             ELSE feats

\* "for i in range(len(upper_text) - (n - 1))"
NgramLoop(U, n, prefix, feats) == NgramRange(U, n, prefix, 1, Len(U) - (n - 1), feats)

\* a variant that separates words at literal spaces only
split_AtSpaces(t) ==
    LET starts == {i \in 1..Len(t) : t[i] # " " /\ (i = 1 \/ t[i - 1] = " ")}
        start(k) == CHOOSE i \in starts : Cardinality({x \in starts : x < i}) = k - 1
        end(i) == CHOOSE j \in i..Len(t) :
                      /\ \A x \in i..j : t[x] # " "
                      /\ (j = Len(t) \/ t[j + 1] = " ")
    IN  [k \in 1..Cardinality(starts) |-> SubSeq(t, start(k), end(start(k)))]

\* text.split(): the maximal runs of non-whitespace characters, in order of their
\* start position
split(t) ==
    LET starts == {i \in 1..Len(t) : ~isspace(t[i]) /\ (i = 1 \/ isspace(t[i - 1]))}
        start(k) == CHOOSE i \in starts : Cardinality({x \in starts : x < i}) = k - 1
        end(i) == CHOOSE j \in i..Len(t) :
                      /\ \A x \in i..j : ~isspace(t[x])
                      /\ (j = Len(t) \/ isspace(t[j + 1]))
    IN  [k \in 1..Cardinality(starts) |-> SubSeq(t, start(k), end(start(k)))]

\* sum(word_lens)
RECURSIVE SumSeq(_)
SumSeq(s) == IF Len(s) = 0 THEN 0 ELSE Head(s) + SumSeq(Tail(s))

\* max(word_lens)
MaxSeq(s) == CHOOSE m \in {s[i] : i \in 1..Len(s)} : \A i \in 1..Len(s) : s[i] <= m

Flag(b) == IF b THEN One ELSE Zero

\* a variant that also emits the word-level zeros for the empty text
EmptyFeatures_WithWordCount ==
    [k \in {"len", "alpha_ratio", "digit_ratio", "space_ratio", "upper_ratio",
            "special_ratio", "entropy", "word_count"} |-> Zero]

\* lines 53-61: the empty text
EmptyFeatures ==
    [k \in {"len", "alpha_ratio", "digit_ratio", "space_ratio", "upper_ratio",
            "special_ratio", "entropy"} |-> Zero]

\* lines 63-76: the statistical features
StatFeatures(t) ==
    LET length        == Len(t)
        alpha_count   == CountIn(t, UpperLetters \cup LowerLetters)
        digit_count   == CountIn(t, DigitChars)
        space_count   == CountIn(t, {" "})
        upper_count   == CountIn(t, UpperLetters)
        special_count == length - alpha_count - digit_count - space_count
    IN  ("len" :> RatMin(Rat(length, LenNorm), One))
        @@ ("alpha_ratio" :> Rat(alpha_count, length))
        @@ ("digit_ratio" :> Rat(digit_count, length))
        @@ ("space_ratio" :> Rat(space_count, length))
        @@ ("upper_ratio" :> IF alpha_count > 0 THEN Rat(upper_count, length) ELSE Zero)
        @@ ("special_ratio" :> Rat(special_count, length))
        @@ ("entropy" :> Rat(shannon_entropy(t), EntropyNorm * 1000))

\* a variant whose fallback branch forgets the min(..., 1.0) of max_word_len
WordFeatures_Unclipped(t) ==
    LET length    == Len(t)
        words     == split(t)
        word_lens == [i \in 1..Len(words) |-> Len(words[i])]
    IN  IF Len(words) > 0
        THEN ("max_word_len" :> RatMin(Rat(MaxSeq(word_lens), MaxWordLenNorm), One))
             @@ ("avg_word_len" :>
                   RatMin(Rat(SumSeq(word_lens), Len(word_lens) * AvgWordLenNorm), One))
             @@ ("word_count" :> RatMin(Rat(Len(words), WordCountNorm), One))
        ELSE ("max_word_len" :> Rat(length, MaxWordLenNorm))
             @@ ("avg_word_len" :> RatMin(Rat(length, AvgWordLenNorm), One))
             @@ ("word_count" :> Zero)

\* lines 94-104: the word-level features
WordFeatures(t) ==
    LET length    == Len(t)
        words     == split(t)
        word_lens == [i \in 1..Len(words) |-> Len(words[i])]
    IN  IF Len(words) > 0
        THEN ("max_word_len" :> RatMin(Rat(MaxSeq(word_lens), MaxWordLenNorm), One))
             @@ ("avg_word_len" :>
                   RatMin(Rat(SumSeq(word_lens), Len(word_lens) * AvgWordLenNorm), One))
             @@ ("word_count" :> RatMin(Rat(Len(words), WordCountNorm), One))
        ELSE ("max_word_len" :> RatMin(Rat(length, MaxWordLenNorm), One))
             @@ ("avg_word_len" :> RatMin(Rat(length, AvgWordLenNorm), One))
             @@ ("word_count" :> Zero)

\* lines 106-115: vowel ratio and repeated adjacent pairs
VowelFeatures(t) ==
    LET length      == Len(t)
        alpha_count == CountIn(t, UpperLetters \cup LowerLetters)
        vowels      == CountIn(upper(t), {"A", "E", "I", "O", "U"})
        repeated    == Cardinality({i \in 1..(length - 1) : t[i] = t[i + 1]})
    IN  ("vowel_ratio" :> IF alpha_count > 0 THEN Rat(vowels, alpha_count) ELSE Zero)
        @@ ("repeated_pair_ratio" :>
              IF length > 1 THEN Rat(repeated, length - 1) ELSE Zero)

\* a variant that searches the pattern without its closing \b
has_rst_NoClosingBoundary(t) ==
    \E i \in 1..Len(t) :
        /\ Boundary(t, i - 1)
        /\ In(t, i, Digits1to5)
        /\ In(t, i + 1, Digits1to9)

\* line 119: the pattern the has_rst flag searches the literal text for
has_rst(t) == RST_RE(t)

\* lines 117-125: the pattern flags
PatternFeatures(t) ==
    ("has_callsign" :> Flag(CALLSIGN_RE(upper(t))))
    @@ ("has_rst" :> Flag(has_rst(t)))
    @@ ("has_grid" :> Flag(GRID_RE(t)))
    @@ ("has_cq" :> Flag(CQ_RE(t)))
    @@ ("has_de" :> Flag(DE_RE(t)))
    @@ ("has_73" :> Flag(SEVENTY_THREE_RE(t)))
    @@ ("has_db_report" :> Flag(DB_REPORT_RE(t)))
    @@ ("has_rrr" :> Flag(RRR_RE(t)))

extract_features(t) ==
    IF Len(t) = 0 THEN EmptyFeatures
    ELSE LET upper_text == upper(t)
             stats      == StatFeatures(t)
             bigrams    == NgramLoop(upper_text, 2, "bi_", stats)
             trigrams   == NgramLoop(upper_text, 3, "tri_", bigrams)
         IN  PatternFeatures(t) @@ VowelFeatures(t) @@ WordFeatures(t) @@ trigrams

(***************************************************************************)
(* sklearn's DictVectorizer as train() uses it.  fit keeps the union of    *)
(* the names of the maps it is given, in sorted order; the order is        *)
(* modelled as one fixed total order on names.  transform fills a vector   *)
(* aligned with the fitted names and ignores every other name.             *)
(***************************************************************************)
RECURSIVE SeqOfSet(_)
SeqOfSet(S) ==
    IF S = {} THEN <<>>
    ELSE LET x == CHOOSE y \in S : TRUE IN <<x>> \o SeqOfSet(S \ {x})

\* vectorizer.fit: feature_names_
DictVectorizer_fit(dicts) == SeqOfSet(UNION {DOMAIN dicts[i] : i \in 1..Len(dicts)})

\* vectorizer.transform([feats])[0]
DictVectorizer_transform(vocab, feats) ==
    [i \in 1..Len(vocab) |-> IF vocab[i] \in DOMAIN feats THEN feats[vocab[i]] ELSE Zero]

(***************************************************************************)
(* sklearn's LogisticRegression as train() uses it, in thousandths.        *)
(* predict answers class 1 when the decision value is positive;            *)
(* predict_proba answers [1 - p, p] with p = expit(decision value).        *)
(***************************************************************************)
\* a float in thousandths, rounded down
Milli(r) == (r[1] * 1000) \div r[2]

RECURSIVE SumRange(_, _, _)
SumRange(f, lo, hi) ==
    IF lo > hi THEN 0
    ELSE IF lo = hi THEN f[lo]
    ELSE LET mid == (lo + hi) \div 2 IN SumRange(f, lo, mid) + SumRange(f, mid + 1, hi)

\* model.decision_function(fv): coef . fv + intercept
decision_function(m, fv) ==
    SumRange([i \in 1..Len(fv) |-> m.coef[i] * Milli(fv[i])], 1, Len(fv))
    + m.intercept * 1000

\* ExpitTable[k + 1] = 1000 / (1 + exp(-k / 4)), rounded
ExpitTable == <<500, 562, 622, 679, 731, 777, 818, 852, 881, 905, 924, 940, 953, 963, 971, 977, 982, 986, 989, 991, 993, 995, 996, 997, 998, 998, 998, 999, 999, 999, 999, 1000, 1000>>

\* expit(z), z and the result in thousandths: the table, interpolated
expit(z) ==
    LET a == Abs(z)
        k == a \div 250
        v == IF k + 2 > Len(ExpitTable) THEN 1000
             ELSE ExpitTable[k + 1]
                  + ((ExpitTable[k + 2] - ExpitTable[k + 1]) * (a % 250)) \div 250
    IN  IF z >= 0 THEN v ELSE 1000 - v

\* model.predict(fv)[0]
predict(m, fv) == IF decision_function(m, fv) > 0 THEN 1 ELSE 0

\* model.predict_proba(fv)[0]: the probabilities of class 0 and of class 1
predict_proba(m, fv) ==
    LET p == expit(decision_function(m, fv)) IN <<Rat(1000 - p, 1000), Rat(p, 1000)>>

RatMax(a, b) == IF RatLE(a, b) THEN b ELSE a

(***************************************************************************)
(* train() and the __main__ block.                                         *)
(***************************************************************************)
MaxWeight == 1

Weights == (-MaxWeight)..MaxWeight

AccuracyTarget == <<19, 20>>

MLMODEL == "HamTextClassifier.mlmodel"

COMPILED == "Resources/HamTextClassifier.mlmodelc"

GOLDEN == "Resources/golden_test_pairs.json"

Paths == {MLMODEL, COMPILED, GOLDEN}

Row(t, l) == [text |-> t, label |-> l]

\* contents of data/train.csv: both labels occur
TrainTables ==
    { <<Row(<<"C", "Q">>, 1), Row(<<"#">>, 0)>>,
      <<Row(<<"C", "Q", " ", "5">>, 1), Row(<<"q", "#">>, 0)>> }

\* contents of data/test.csv: two rows, and twenty rows of which one or two carry the
\* other label (accuracies 19/20 and 18/20 are reachable)
TestTables ==
    { <<Row(<<"C", "Q">>, 1), Row(<<"#">>, 0)>>,
      [i \in 1..20 |-> Row(<<"C", "Q">>, IF i <= 19 THEN 1 ELSE 0)],
      [i \in 1..20 |-> Row(<<"C", "Q">>, IF i <= 18 THEN 1 ELSE 0)] }

\* lines 213-234, of which the model keeps two
legit_samples ==
    << <<"C", "Q", " ", "W", "1", "A", "W", " ", "F", "N", "3", "1">>,
       <<"W", "1", "A", "W", " ", "K", "3", "L", "R", " ", "7", "3">> >>

\* lines 236-261, of which the model keeps two
garbage_samples ==
    << <<"x", "k", "j", "r", "8", "9", "#", "$", "@", "m", "z", "!", "p", "q">>,
       <<".", ".", ".", ".", ".", ".", ".", ".", ".">> >>

NoModel == [coef |-> <<>>, intercept |-> 0]

\* the state of extract_features' variables where the pipeline runs
ExtractIdle == text = <<>> /\ features = NoFeatures /\ called = FALSE

TrainInit ==
    /\ ExtractIdle
    /\ GenIdle
    /\ CorruptIdle
    /\ WriteIdle
    /\ CallsIdle
    /\ pc = "load"
    /\ csv \in [train : TrainTables, test : TestTables]
    /\ disk \in [Paths -> {"none", "old"}]
    /\ train_df = <<>> /\ test_df = <<>>
    /\ X_train_dicts = <<>> /\ X_test_dicts = <<>>
    /\ vocabulary = <<>> /\ fitted_schema = <<>>
    /\ X_train = <<>> /\ X_test = <<>>
    /\ model = NoModel
    /\ accuracy = Zero
    /\ output = {}
    /\ returncode = -1
    /\ gi = 1
    /\ last_fm = NoFeatures /\ last_fv = <<>>
    /\ golden_pairs = <<>>
    /\ exit_status = -1

\* the state of the pipeline's variables where no pipeline runs
TrainIdle ==
    /\ GenIdle
    /\ pc = "idle"
    /\ csv = [train |-> <<>>, test |-> <<>>]
    /\ disk = [p \in Paths |-> "none"]
    /\ train_df = <<>> /\ test_df = <<>>
    /\ X_train_dicts = <<>> /\ X_test_dicts = <<>>
    /\ vocabulary = <<>> /\ fitted_schema = <<>>
    /\ X_train = <<>> /\ X_test = <<>>
    /\ model = NoModel
    /\ accuracy = Zero
    /\ output = {}
    /\ returncode = -1
    /\ gi = 1
    /\ last_fm = NoFeatures /\ last_fv = <<>>
    /\ golden_pairs = <<>>
    /\ exit_status = -1

\* lines 133-134: pd.read_csv
Load ==
    /\ pc = "load"
    /\ train_df' = csv.train
    /\ test_df' = csv.test
    /\ pc' = "extract"
    /\ UNCHANGED <<xvars, cvars, wvars, kvars, ivars, gvars, csv, X_train_dicts, X_test_dicts, vocabulary, fitted_schema, X_train,
                   X_test, model, accuracy, output, disk, returncode, gi, last_fm,
                   last_fv, golden_pairs, exit_status>>

\* lines 140-143: the feature maps of both tables
ExtractAll ==
    /\ pc = "extract"
    /\ X_train_dicts' = [i \in 1..Len(train_df) |-> extract_features(train_df[i].text)]
    /\ X_test_dicts' = [i \in 1..Len(test_df) |-> extract_features(test_df[i].text)]
    /\ pc' = "vectorize"
    /\ UNCHANGED <<xvars, cvars, wvars, kvars, ivars, gvars, csv, train_df, test_df, vocabulary, fitted_schema, X_train, X_test,
                   model, accuracy, output, disk, returncode, gi, last_fm, last_fv,
                   golden_pairs, exit_status>>

\* lines 147-149: fit_transform on the training maps, transform on the test maps
Vectorize ==
    /\ pc = "vectorize"
    /\ LET names == DictVectorizer_fit(X_train_dicts)
       IN  /\ vocabulary' = names
           /\ fitted_schema' = names
           /\ X_train' = [i \in 1..Len(X_train_dicts) |->
                            DictVectorizer_transform(names, X_train_dicts[i])]
           /\ X_test' = [i \in 1..Len(X_test_dicts) |->
                           DictVectorizer_transform(names, X_test_dicts[i])]
    /\ pc' = "fit"
    /\ UNCHANGED <<xvars, cvars, wvars, kvars, ivars, gvars, csv, train_df, test_df, X_train_dicts, X_test_dicts, model, accuracy,
                   output, disk, returncode, gi, last_fm, last_fv, golden_pairs,
                   exit_status>>

\* lines 151-152: model.fit; the optimizer's result is some coefficient per name and
\* some intercept
FitModel ==
    /\ pc = "fit"
    /\ \E c \in Weights, b \in Weights :
           model' = [coef |-> [i \in 1..Len(vocabulary) |-> c], intercept |-> b]
    /\ pc' = "evaluate"
    /\ UNCHANGED <<xvars, cvars, wvars, kvars, ivars, gvars, csv, train_df, test_df, X_train_dicts, X_test_dicts, vocabulary,
                   fitted_schema, X_train, X_test, accuracy, output, disk, returncode,
                   gi, last_fm, last_fv, golden_pairs, exit_status>>

\* line 156: accuracy_score(y_test, y_pred)
accuracy_score(y_test, y_pred) ==
    Rat(Cardinality({i \in 1..Len(y_test) : y_test[i] = y_pred[i]}), Len(y_test))

\* lines 161-162: the warning printed for a low accuracy
LowAccuracyReport(acc) ==
    IF RatLT(acc, AccuracyTarget) THEN {"WARNING: Accuracy is below 95% target!"} ELSE {}

\* a variant that stops the run at a low accuracy
AfterEvaluate_StopWhenLow(acc) == IF RatLT(acc, AccuracyTarget) THEN "done" ELSE "export"

\* lines 161-165: the step after the evaluation, whatever the accuracy
AfterEvaluate(acc) == "export"

\* lines 155-162: predict the test set, measure, warn
Evaluate ==
    /\ pc = "evaluate"
    /\ LET y_pred == [i \in 1..Len(X_test) |-> predict(model, X_test[i])]
           y_test == [i \in 1..Len(test_df) |-> test_df[i].label]
           acc    == accuracy_score(y_test, y_pred)
       IN  /\ accuracy' = acc
           /\ output' = output \cup LowAccuracyReport(acc)
           /\ pc' = AfterEvaluate(acc)
    /\ UNCHANGED <<xvars, cvars, wvars, kvars, ivars, gvars, csv, train_df, test_df, X_train_dicts, X_test_dicts, vocabulary,
                   fitted_schema, X_train, X_test, model, disk, returncode, gi, last_fm,
                   last_fv, golden_pairs, exit_status>>

\* lines 165-185: convert the pipeline and save HamTextClassifier.mlmodel
Export ==
    /\ pc = "export"
    /\ disk' = [disk EXCEPT ![MLMODEL] = "new"]
    /\ pc' = "prepare"
    /\ UNCHANGED <<xvars, cvars, wvars, kvars, ivars, gvars, csv, train_df, test_df, X_train_dicts, X_test_dicts, vocabulary,
                   fitted_schema, X_train, X_test, model, accuracy, output, returncode,
                   gi, last_fm, last_fv, golden_pairs, exit_status>>

\* lines 189-197: remove the old compiled model if it exists
PrepareCompile ==
    /\ pc = "prepare"
    /\ disk' = [disk EXCEPT ![COMPILED] = "none"]
    /\ pc' = "compile"
    /\ UNCHANGED <<xvars, cvars, wvars, kvars, ivars, gvars, csv, train_df, test_df, X_train_dicts, X_test_dicts, vocabulary,
                   fitted_schema, X_train, X_test, model, accuracy, output, returncode,
                   gi, last_fm, last_fv, golden_pairs, exit_status>>

\* lines 199-203: xcrun coremlcompiler compile; it succeeds and leaves the compiled
\* model, or fails with status 1
Compile ==
    /\ pc = "compile"
    /\ \E rc \in {0, 1} :
           /\ returncode' = rc
           /\ disk' = IF rc = 0 THEN [disk EXCEPT ![COMPILED] = "new"] ELSE disk
    /\ pc' = "check"
    /\ UNCHANGED <<xvars, cvars, wvars, kvars, ivars, gvars, csv, train_df, test_df, X_train_dicts, X_test_dicts, vocabulary,
                   fitted_schema, X_train, X_test, model, accuracy, output, gi, last_fm,
                   last_fv, golden_pairs, exit_status>>

\* a variant that takes every compiler status for a success
CompileFailed_Never(rc) == FALSE

\* line 204: result.returncode != 0
CompileFailed(rc) == rc # 0

\* lines 204-207: report the compiler's stderr and exit with status 1, or go on
CheckCompile ==
    /\ pc = "check"
    /\ IF CompileFailed(returncode)
       THEN /\ output' = output \cup {"coremlcompiler failed: <stderr>"}
            /\ exit_status' = 1
            /\ pc' = "done"
       ELSE /\ pc' = "golden_legit"
            /\ UNCHANGED <<output, exit_status>>
    /\ UNCHANGED <<xvars, cvars, wvars, kvars, ivars, gvars, csv, train_df, test_df, X_train_dicts, X_test_dicts, vocabulary,
                   fitted_schema, X_train, X_test, model, accuracy, disk, returncode, gi,
                   last_fm, last_fv, golden_pairs>>

\* a variant that learns the names of the map it is given after transforming it
GoldenVectorize_Refit(vocab, feats) ==
    [vocabulary |-> DictVectorizer_fit(<<feats>>),
     fv |-> DictVectorizer_transform(vocab, feats)]

\* lines 265, 277: fv = vectorizer.transform([feats]); the vectorizer after the call
\* and the vector
GoldenVectorize(vocab, feats) ==
    [vocabulary |-> vocab, fv |-> DictVectorizer_transform(vocab, feats)]

\* a variant that reports the probability of class 1 as the confidence
Confidence_OfClassOne(prob) == prob[2]

\* lines 272, 284: float(max(prob))
Confidence(prob) == RatMax(prob[1], prob[2])

\* lines 264-273, 276-285: one pass of a golden loop
GoldenPair(m, fv, t, expected) ==
    [text |-> t,
     expected_label |-> expected,
     predicted_label |-> predict(m, fv),
     confidence |-> Confidence(predict_proba(m, fv))]

GoldenPass(texts, expected, next) ==
    IF gi <= Len(texts)
    THEN LET feats == extract_features(texts[gi])
             v     == GoldenVectorize(vocabulary, feats)
         IN  /\ vocabulary' = v.vocabulary
             /\ last_fm' = feats
             /\ last_fv' = v.fv
             /\ golden_pairs' =
                    Append(golden_pairs, GoldenPair(model, v.fv, texts[gi], expected))
             /\ gi' = gi + 1
             /\ UNCHANGED pc
    ELSE /\ pc' = next
         /\ gi' = 1
         /\ UNCHANGED <<vocabulary, last_fm, last_fv, golden_pairs>>

\* lines 263-273: for text in legit_samples
GoldenLegit ==
    /\ pc = "golden_legit"
    /\ GoldenPass(legit_samples, 1, "golden_garbage")
    /\ UNCHANGED <<xvars, cvars, wvars, kvars, ivars, gvars, csv, train_df, test_df, X_train_dicts, X_test_dicts, fitted_schema,
                   X_train, X_test, model, accuracy, output, disk, returncode,
                   exit_status>>

\* lines 275-285: for text in garbage_samples
GoldenGarbage ==
    /\ pc = "golden_garbage"
    /\ GoldenPass(garbage_samples, 0, "write")
    /\ UNCHANGED <<xvars, cvars, wvars, kvars, ivars, gvars, csv, train_df, test_df, X_train_dicts, X_test_dicts, fitted_schema,
                   X_train, X_test, model, accuracy, output, disk, returncode,
                   exit_status>>

\* lines 287-296: write golden_test_pairs.json
WriteGolden ==
    /\ pc = "write"
    /\ disk' = [disk EXCEPT ![GOLDEN] = "new"]
    /\ pc' = "return"
    /\ UNCHANGED <<xvars, cvars, wvars, kvars, ivars, gvars, csv, train_df, test_df, X_train_dicts, X_test_dicts, vocabulary,
                   fitted_schema, X_train, X_test, model, accuracy, output, returncode,
                   gi, last_fm, last_fv, golden_pairs, exit_status>>

\* line 303: 0 if acc >= 0.95 else 1
ExitStatus(acc) == IF RatLE(AccuracyTarget, acc) THEN 0 ELSE 1

\* lines 298, 302-303: return accuracy; sys.exit(0 if acc >= 0.95 else 1)
MainExit ==
    /\ pc = "return"
    /\ exit_status' = ExitStatus(accuracy)
    /\ pc' = "done"
    /\ UNCHANGED <<xvars, cvars, wvars, kvars, ivars, gvars, csv, train_df, test_df, X_train_dicts, X_test_dicts, vocabulary,
                   fitted_schema, X_train, X_test, model, accuracy, output, disk,
                   returncode, gi, last_fm, last_fv, golden_pairs>>

TrainNext ==
    \/ Load
    \/ ExtractAll
    \/ Vectorize
    \/ FitModel
    \/ Evaluate
    \/ Export
    \/ PrepareCompile
    \/ Compile
    \/ CheckCompile
    \/ GoldenLegit
    \/ GoldenGarbage
    \/ WriteGolden
    \/ MainExit

SpecTrain == TrainInit /\ [][TrainNext]_vars

(***************************************************************************)
(* Calls of extract_features.  The argument is drawn from the texts of at  *)
(* most MaxLen characters over two small alphabets (one for the character  *)
(* statistics, one for the signal-report pattern) and from the runs of one *)
(* character that are one longer than a normalizer, where min(..., 1.0)    *)
(* clips.                                                                  *)
(***************************************************************************)
StatChars == {"A", "e", "q", "5", " ", "\t", "#"}

RstChars == {"5", "9", "0", "A", " ", "_", "-"}

SeqsUpTo(S, n) == UNION {[1..k -> S] : k \in 0..n}

LongTexts ==
    {[i \in 1..(n + 1) |-> c] : n \in {LenNorm, MaxWordLenNorm, AvgWordLenNorm},
                               c \in {"A", " ", "#"}}

\* the letters of CQ and DE in both cases, a separator and the underscore
CqChars == {"C", "q", "D", "e", " ", "_"}

\* the characters of 73 and RR73 and two separators
SeventyThreeChars == {"7", "3", "R", " ", "-"}

\* the texts of the documented scenarios
ExampleTexts ==
    {<<"C", "Q", " ", "C", "Q", " ", "C", "Q", " ", "D", "E", " ", "W", "1", "A", "W",
       " ", "W", "1", "A", "W", " ", "K">>,
     <<"W", "1", "A", "W", " ", "K", "3", "L", "R", " ", "7", "3">>}

\* one-letter words separated by single spaces: as many as the word_count
\* normalizer, and one more
ManyWordsTexts ==
    {[i \in 1..(2 * k - 1) |-> IF i % 2 = 1 THEN "A" ELSE " "] :
        k \in {WordCountNorm, WordCountNorm + 1}}

Texts ==
    SeqsUpTo(StatChars, MaxLen) \cup SeqsUpTo(RstChars, MaxLen)
        \cup SeqsUpTo(CqChars, MaxLen) \cup SeqsUpTo(SeventyThreeChars, MaxLen)
        \cup LongTexts \cup ExampleTexts \cup ManyWordsTexts

ExtractInit ==
    /\ CorruptIdle
    /\ WriteIdle
    /\ CallsIdle
    /\ text \in Texts
    /\ features = NoFeatures
    /\ called = FALSE
    /\ TrainIdle

\* features = extract_features(text)
ExtractCall ==
    /\ ~called
    /\ features' = extract_features(text)
    /\ called' = TRUE
    /\ UNCHANGED <<text, tvars, gvars, cvars, wvars, kvars, ivars>>

ExtractNext == ExtractCall

SpecExtract == ExtractInit /\ [][ExtractNext]_vars

(***************************************************************************)
(* generate_data.py: generate_dataset.  A sample is the tuple (text,       *)
(* label) of the source, kept as a record; its field by, which the source  *)
(* does not have, records the generator whose call produced the tuple.     *)
(* The loop counts of the source (12,000, 12,000, 16,000, 10,000 and       *)
(* TOTAL_GARBAGE passes) are replaced by every choice of five counts with  *)
(* at most MaxCorpus passes in total; the source's own counts are the      *)
(* definitions RTTY_PASSES ... TOTAL_GARBAGE below.                        *)
(***************************************************************************)
MaxCorpus == 5

\* lines 606, 610, 614, 618 and 12: the number of passes of each loop
RTTY_PASSES == 12000

PSK_PASSES == 12000

FT8_PASSES == 16000

RATTLEGRAM_PASSES == 10000

TOTAL_GARBAGE == 50000

\* line 13: TRAIN_RATIO = 0.8
TRAIN_RATIO == <<4, 5>>

TRAIN_CSV == "data/train.csv"

TEST_CSV == "data/test.csv"

\* lines 605-623: the generators, in the order of their loops
Generators == <<"gen_rtty", "gen_psk", "gen_ft8", "gen_rattlegram", "gen_garbage">>

GeneratorIndex(gen) == CHOOSE i \in 1..Len(Generators) : Generators[i] = gen

\* Some of the strings each generator can return.  gen_garbage_random_ascii draws
\* 5 to 200 printable characters, so that gen_garbage can also return a string a
\* legitimate generator returns.
GeneratorOutputs ==
    [gen_rtty |-> {<<"W", "5", "F", " ", "3", "3", " ", "6", "7", "4", "1", " ", "K">>},
     gen_psk |-> {<<"C", "Q", " ", "C", "Q", " ", "C", "Q", " ", "C", "Q", " ", "d", "e",
                    " ", "W", "4", "K", " ", "W", "4", "K", " ", "k">>},
     gen_ft8 |-> {<<"W", "5", "V", " ", "W", "2", "V", " ", "7", "3">>},
     gen_rattlegram |-> {<<"Q", "S", "O", " ", "w", "i", "t", "h", " ", "N", "7", "K", " ",
                           "w", "a", "s", " ", "g", "r", "e", "a", "t", ".">>},
     gen_garbage |-> {<<"o">>,
                      <<"W", "5", "V", " ", "W", "2", "V", " ", "7", "3">>}]

\* a variant that labels every sample 1
LabelOf_AlwaysOne(gen) == 1

\* lines 607, 611, 615, 619, 623: the label appended with a generator's text
LabelOf(gen) == IF gen = "gen_garbage" THEN 0 ELSE 1

\* lines 607-623: the tuple (gen(), label)
Sample(gen, t) == [text |-> t, label |-> LabelOf(gen), by |-> gen]

\* random.shuffle(samples): the orders it can leave the list in
Shuffled(s) ==
    {[i \in 1..Len(s) |-> s[p[i]]] : p \in Permutations(1..Len(s))}

\* line 627: int(len(samples) * TRAIN_RATIO); for every length below 300,000 the
\* float product len * 0.8 truncates to the integer part of 4 * len / 5
split_index(len) == (len * TRAIN_RATIO[1]) \div TRAIN_RATIO[2]

\* line 628: samples[:split]
train_slice(s, at) == SubSeq(s, 1, at)

\* a variant that starts the test slice one place late
test_slice_OnePlaceLate(s, at) == SubSeq(s, at + 2, Len(s))

\* line 629: samples[split:]
test_slice(s, at) == SubSeq(s, at + 1, Len(s))

\* str.replace(old, new) for one-character old and new
replace(t, old, new) == [i \in 1..Len(t) |-> IF t[i] = old THEN new ELSE t[i]]

\* a variant that replaces the newline only
clean_NewlineOnly(t) == replace(t, "\n", " ")

\* line 639: text.replace("\n", " ").replace("\r", " ")
clean(t) == replace(replace(t, "\n", " "), "\r", " ")

\* lines 636-640: the header row and one row [clean, label] per sample
CsvFile(data) ==
    [written |-> TRUE,
     header |-> <<"text", "label">>,
     rows |-> [i \in 1..Len(data) |-> [text |-> clean(data[i].text),
                                        label |-> data[i].label]]]

NoFile == [written |-> FALSE, header |-> <<>>, rows |-> <<>>]

Total(c) ==
    c["gen_rtty"] + c["gen_psk"] + c["gen_ft8"] + c["gen_rattlegram"] + c["gen_garbage"]

GeneratorNames == {Generators[i] : i \in 1..Len(Generators)}

GenInit ==
    /\ ExtractIdle
    /\ CorruptIdle
    /\ WriteIdle
    /\ CallsIdle
    /\ pc = "idle"
    /\ csv = [train |-> <<>>, test |-> <<>>]
    /\ disk = [p \in Paths |-> "none"]
    /\ train_df = <<>> /\ test_df = <<>>
    /\ X_train_dicts = <<>> /\ X_test_dicts = <<>>
    /\ vocabulary = <<>> /\ fitted_schema = <<>>
    /\ X_train = <<>> /\ X_test = <<>>
    /\ model = NoModel
    /\ accuracy = Zero
    /\ output = {}
    /\ returncode = -1
    /\ gi = 1
    /\ last_fm = NoFeatures /\ last_fv = <<>>
    /\ golden_pairs = <<>>
    /\ exit_status = -1
    /\ gpc = Generators[1]
    /\ counts \in {c \in [GeneratorNames -> 0..MaxCorpus] : Total(c) <= MaxCorpus}
    /\ passes = 0
    /\ samples = <<>> /\ generated = <<>>
    /\ shuffles = 0
    /\ train = <<>> /\ test = <<>>
    /\ files = [f \in {TRAIN_CSV, TEST_CSV} |-> NoFile]

\* lines 606-623: one pass of the running loop, samples.append((gen(), label)), or
\* the end of the loop
Generate ==
    /\ gpc \in GeneratorNames
    /\ IF passes < counts[gpc]
       THEN /\ \E t \in GeneratorOutputs[gpc] :
                   samples' = Append(samples, Sample(gpc, t))
            /\ passes' = passes + 1
            /\ UNCHANGED <<gpc, generated>>
       ELSE LET last == GeneratorIndex(gpc) = Len(Generators)
            IN  /\ gpc' = IF last THEN "shuffle" ELSE Generators[GeneratorIndex(gpc) + 1]
                /\ passes' = 0
                /\ generated' = IF last THEN samples ELSE generated
                /\ UNCHANGED samples
    /\ UNCHANGED <<xvars, cvars, wvars, kvars, ivars, tvars, counts, shuffles, train, test, files>>

\* line 625: random.shuffle(samples)
Shuffle ==
    /\ gpc = "shuffle"
    /\ samples' \in Shuffled(samples)
    /\ shuffles' = shuffles + 1
    /\ gpc' = "split"
    /\ UNCHANGED <<xvars, cvars, wvars, kvars, ivars, tvars, counts, passes, generated, train, test, files>>

\* lines 627-629: split, train, test
Split ==
    /\ gpc = "split"
    /\ LET split_at == split_index(Len(samples))
       IN  /\ train' = train_slice(samples, split_at)
           /\ test' = test_slice(samples, split_at)
    /\ gpc' = "write_train"
    /\ UNCHANGED <<xvars, cvars, wvars, kvars, ivars, tvars, counts, passes, samples, generated, shuffles, files>>

\* lines 633-640, first pass: data/train.csv
WriteTrain ==
    /\ gpc = "write_train"
    /\ files' = [files EXCEPT ![TRAIN_CSV] = CsvFile(train)]
    /\ gpc' = "write_test"
    /\ UNCHANGED <<xvars, cvars, wvars, kvars, ivars, tvars, counts, passes, samples, generated, shuffles, train, test>>

\* lines 633-640, second pass: data/test.csv
WriteTest ==
    /\ gpc = "write_test"
    /\ files' = [files EXCEPT ![TEST_CSV] = CsvFile(test)]
    /\ gpc' = "done"
    /\ UNCHANGED <<xvars, cvars, wvars, kvars, ivars, tvars, counts, passes, samples, generated, shuffles, train, test>>

GenNext ==
    \/ Generate
    \/ Shuffle
    \/ Split
    \/ WriteTrain
    \/ WriteTest

SpecGen == GenInit /\ [][GenNext]_vars

(***************************************************************************)
(* generate_data.py: gen_garbage_corrupted.  The legitimate text is one of *)
(* two strings gen_ft8 can return, of 10 and of 11 characters; the draw of *)
(* random.uniform(0.4, 0.7) is one of a few rationals of that interval,    *)
(* both ends included (the float draw can equal either end); the           *)
(* replacement characters are two of string.printable[:95], one of which   *)
(* occurs in the legitimate texts.                                         *)
(***************************************************************************)
LegitTexts ==
    {<<"W", "8", "Q", " ", "W", "8", "K", " ", "7", "3">>,
     <<"C", "P", "3", "P", " ", "N", "9", "S", " ", "7", "3">>}

Corruptions == {<<2, 5>>, <<1, 2>>, <<7, 10>>}

ReplacementChars == {"#", "7"}

\* a variant that rounds the product up
n_corrupt_RoundedUp(length, c) == (length * c[1] + c[2] - 1) \div c[2]

\* line 532: int(len(result) * corruption)
n_corrupt(length, c) == (length * c[1]) \div c[2]

\* min(a, b)
Min(a, b) == IF a <= b THEN a ELSE b

\* line 533: random.sample(range(len(result)), k): the sets of k distinct positions
\* (1-based) it can return; the order of the sample is the order of the loop
random_sample(length, k) == {P \in SUBSET (1..length) : Cardinality(P) = k}

CorruptInit ==
    /\ ExtractIdle
    /\ TrainIdle
    /\ WriteIdle
    /\ CallsIdle
    /\ legit \in LegitTexts
    /\ corruption = <<0, 1>>
    /\ positions = {}
    /\ result = <<>>
    /\ corrupted = FALSE

\* lines 529-537: the draw, the sample of positions, one replacement character per
\* position, "".join(result)
Corrupt ==
    /\ ~corrupted
    /\ \E c \in Corruptions :
           \E P \in random_sample(Len(legit), Min(n_corrupt(Len(legit), c), Len(legit))) :
               \E choice \in [P -> ReplacementChars] :
                   /\ corruption' = c
                   /\ positions' = P
                   /\ result' = [i \in 1..Len(legit) |->
                                     IF i \in P THEN choice[i] ELSE legit[i]]
    /\ corrupted' = TRUE
    /\ UNCHANGED <<xvars, tvars, gvars, wvars, kvars, ivars, legit>>

CorruptNext == Corrupt

SpecCorrupt == CorruptInit /\ [][CorruptNext]_vars

(***************************************************************************)
(* generate_data.py: the write loop of generate_dataset (lines 636-640)    *)
(* as a function of its list data, for   any list of at most one sample      *)
(* whose text has at most MaxLen characters, line breaks included.         *)
(***************************************************************************)
LineChars == {"a", " ", "\n", "\r"}

DataLists ==
    {<<>>} \cup {<<[text |-> t, label |-> l]>> : t \in SeqsUpTo(LineChars, MaxLen),
                                                l \in {0, 1}}

WriteInit ==
    /\ ExtractIdle
    /\ TrainIdle
    /\ CorruptIdle
    /\ CallsIdle
    /\ to_write \in DataLists
    /\ written_rows = <<>>
    /\ wrote = FALSE

\* lines 636-640: for text, label in data: writer.writerow([clean, label])
WriteRows ==
    /\ ~wrote
    /\ written_rows' = CsvFile(to_write).rows
    /\ wrote' = TRUE
    /\ UNCHANGED <<xvars, tvars, gvars, cvars, kvars, ivars, to_write>>

WriteNext == WriteRows

SpecWrite == WriteInit /\ [][WriteNext]_vars

(***************************************************************************)
(* Successive calls of extract_features.  A dict is an object: objects[r]   *)
(* is the content of object number r, and a call returns the number of the *)
(* object its local name features is bound to.                             *)
(***************************************************************************)
MaxCalls == 3

CallTexts == SeqsUpTo({"A", "b", " "}, 2)

\* a variant that binds features to the dict of the first call
new_dict_Shared(heap) ==
    IF Len(heap) = 0 THEN [ref |-> 1, heap |-> <<NoFeatures>>]
    ELSE [ref |-> 1, heap |-> heap]

\* line 50: features = {} binds features to a new, empty dict
new_dict(heap) == [ref |-> Len(heap) + 1, heap |-> Append(heap, NoFeatures)]

\* lines 52-127: what the body leaves in the dict features is bound to, from the
\* content start the dict has when the body begins
extract_features_into(start, t) ==
    IF Len(t) = 0 THEN EmptyFeatures @@ start
    ELSE LET upper_text == upper(t)
             stats      == StatFeatures(t) @@ start
             bigrams    == NgramLoop(upper_text, 2, "bi_", stats)
             trigrams   == NgramLoop(upper_text, 3, "tri_", bigrams)
         IN  PatternFeatures(t) @@ VowelFeatures(t) @@ WordFeatures(t) @@ trigrams

CallsInit ==
    /\ ExtractIdle
    /\ TrainIdle
    /\ CorruptIdle
    /\ WriteIdle
    /\ CallsIdle

\* one call extract_features(s), from its entry to its return
CallExtract ==
    /\ Len(calls) < MaxCalls
    /\ \E s \in CallTexts :
           LET made == new_dict(objects)
           IN  /\ objects' = [made.heap EXCEPT
                               ![made.ref] = extract_features_into(made.heap[made.ref], s)]
               /\ calls' = Append(calls, [s |-> s, ref |-> made.ref])
    /\ UNCHANGED <<xvars, tvars, gvars, cvars, wvars, ivars>>

CallsNext == CallExtract

SpecCalls == CallsInit /\ [][CallsNext]_vars

(***************************************************************************)
(* generate_data.py: random_callsign, random_grid, random_rst, random_db,  *)
(* and extract_features applied to a text that holds one of their outputs. *)
(* The prefixes, the digits of a callsign and the first letter of a grid   *)
(* are the source's; the letters of a callsign suffix, the other letters   *)
(* and the digits of a grid are drawn from the ends of their ranges.       *)
(***************************************************************************)
US_PREFIXES ==
    {<<"W">>, <<"K">>, <<"N">>, <<"W", "A">>, <<"W", "B">>, <<"W", "D">>, <<"K", "A">>,
     <<"K", "B">>, <<"K", "C">>, <<"K", "D">>, <<"K", "E">>, <<"K", "F">>,
     <<"K", "G">>, <<"K", "I">>, <<"K", "J">>, <<"K", "K">>, <<"K", "N">>,
     <<"N", "X">>, <<"A", "A">>, <<"A", "B">>, <<"A", "C">>, <<"A", "D">>,
     <<"A", "E">>, <<"A", "F">>, <<"A", "G">>, <<"A", "I">>, <<"A", "J">>,
     <<"A", "K">>, <<"A", "L">>}

DX_PREFIXES ==
    {<<"V", "E">>, <<"V", "A">>, <<"V", "K">>, <<"Z", "L">>, <<"G">>, <<"G", "M">>,
     <<"G", "W">>, <<"G", "I">>, <<"F">>, <<"D", "L">>, <<"D", "J">>, <<"D", "K">>,
     <<"P", "A">>, <<"O", "N">>, <<"O", "Z">>, <<"S", "M">>, <<"O", "H">>,
     <<"L", "A">>, <<"E", "A">>, <<"I">>, <<"C", "T">>, <<"Y", "U">>, <<"H", "A">>,
     <<"O", "K">>, <<"S", "P">>, <<"U", "R">>, <<"U", "A">>, <<"J", "A">>,
     <<"J", "H">>, <<"J", "R">>, <<"H", "L">>, <<"B", "V">>, <<"V", "U">>,
     <<"Z", "S">>, <<"P", "Y">>, <<"L", "U">>, <<"C", "E">>, <<"X", "E">>,
     <<"T", "I">>, <<"H", "P">>, <<"H", "K">>, <<"Y", "V">>, <<"H", "C">>,
     <<"O", "A">>, <<"C", "P">>}

GRID_LETTERS_1 == {"A", "B", "C", "D", "E", "F", "G", "H", "I", "J", "K", "L", "M", "N", "O", "R"}

\* two of the letters of GRID_LETTERS_1, the first and the last
GridLetters1Ends == {"A", "R"}

\* two of the 24 letters of GRID_LETTERS_2, the first and the last, lowered
GridLetters2Lower == {"a", "x"}

\* two of the 26 letters of LETTERS, the first and the last
SuffixLetters == {"A", "Z"}

\* two of the ten digits, the first and the last
GridDigits == {"0", "9"}

\* "".join(random.choices(LETTERS, k=suffix_len)) for suffix_len in 1..3: the runs of
\* one letter
Suffixes == {[i \in 1..k |-> c] : k \in 1..3, c \in SuffixLetters}

\* lines 85-98: the strings random_callsign can return
random_callsign ==
    {prefix \o <<digit>> \o suffix :
        prefix \in US_PREFIXES, digit \in DigitChars \ {"0"}, suffix \in Suffixes}
    \cup {prefix \o <<digit>> \o suffix :
        prefix \in DX_PREFIXES, digit \in DigitChars, suffix \in Suffixes}

\* lines 101-111: the strings random_grid can return
random_grid ==
    {<<g1, g2, g3, g4>> :
        g1 \in GRID_LETTERS_1, g2 \in GridLetters1Ends, g3 \in GridDigits, g4 \in GridDigits}
    \cup {<<g1, g2, g3, g4, g5, g6>> :
        g1 \in GRID_LETTERS_1, g2 \in GridLetters1Ends, g3 \in GridDigits, g4 \in GridDigits,
        g5 \in GridLetters2Lower, g6 \in GridLetters2Lower}

\* a variant whose third digit can be 0
random_rst_ZeroTone ==
    {<<r, s, t>> : r \in {"1", "2", "3", "4", "5"},
                   s \in {"1", "2", "3", "4", "5", "6", "7", "8", "9"},
                   t \in {"9", "8", "0"}}
    \cup {<<r, s>> : r \in {"1", "2", "3", "4", "5"},
                     s \in {"1", "2", "3", "4", "5", "6", "7", "8", "9"}}

\* lines 114-121: the strings random_rst can return
random_rst ==
    {<<r, s, t>> : r \in {"1", "2", "3", "4", "5"},
                   s \in {"1", "2", "3", "4", "5", "6", "7", "8", "9"},
                   t \in {"9", "8", "7"}}
    \cup {<<r, s>> : r \in {"1", "2", "3", "4", "5"},
                     s \in {"1", "2", "3", "4", "5", "6", "7", "8", "9"}}

\* f"{d:02d}"
TwoDigits(d) ==
    LET digit == <<"0", "1", "2", "3", "4", "5", "6", "7", "8", "9">>
    IN  <<digit[(d \div 10) + 1], digit[(d % 10) + 1]>>

\* lines 124-128: the strings random_db can return
random_db ==
    {<<"-">> \o TwoDigits(d) : d \in 1..24} \cup {<<"+">> \o TwoDigits(d) : d \in 0..14}

\* the forms in which the generators of messages use an identifier: as returned and,
\* for a grid, uppercased (line 198) or cut to four characters (lines 335-355)
Forms(k, id) == IF k = "random_grid" THEN {id, upper(id), SubSeq(id, 1, 4)} ELSE {id}

\* the characters put before and after the identifier: none, a space, a word
\* character
Arounds == {<<>>, <<" ">>, <<"A">>} \X {<<>>, <<" ">>, <<"5">>}

IdentInit ==
    /\ ExtractIdle
    /\ TrainIdle
    /\ CorruptIdle
    /\ WriteIdle
    /\ objects = <<>>
    /\ calls = <<>>
    /\ ipc = "draw"
    /\ kind = "none"
    /\ ident = <<>>
    /\ around = <<>>
    /\ itext = <<>>
    /\ ifeatures = <<>>

\* a call of random_callsign
DrawCallsign ==
    /\ ipc = "draw"
    /\ ident' \in random_callsign
    /\ kind' = "random_callsign"
    /\ ipc' = "extract"
    /\ UNCHANGED <<xvars, tvars, gvars, cvars, wvars, kvars, around, itext, ifeatures>>

\* a call of random_grid
DrawGrid ==
    /\ ipc = "draw"
    /\ ident' \in random_grid
    /\ kind' = "random_grid"
    /\ ipc' = "extract"
    /\ UNCHANGED <<xvars, tvars, gvars, cvars, wvars, kvars, around, itext, ifeatures>>

\* a call of random_rst
DrawRst ==
    /\ ipc = "draw"
    /\ ident' \in random_rst
    /\ kind' = "random_rst"
    /\ ipc' = "extract"
    /\ UNCHANGED <<xvars, tvars, gvars, cvars, wvars, kvars, around, itext, ifeatures>>

\* a call of random_db
DrawDb ==
    /\ ipc = "draw"
    /\ ident' \in random_db
    /\ kind' = "random_db"
    /\ ipc' = "extract"
    /\ UNCHANGED <<xvars, tvars, gvars, cvars, wvars, kvars, around, itext, ifeatures>>

\* extract_features of a text that holds the identifier, in one of its forms,
\* between the characters of around
ExtractAround ==
    /\ ipc = "extract"
    /\ \E form \in Forms(kind, ident), a \in Arounds :
           /\ ident' = form
           /\ around' = a
           /\ itext' = a[1] \o form \o a[2]
           /\ ifeatures' = extract_features(a[1] \o form \o a[2])
    /\ ipc' = "done"
    /\ UNCHANGED <<xvars, tvars, gvars, cvars, wvars, kvars, kind>>

IdentNext ==
    \/ DrawCallsign
    \/ DrawGrid
    \/ DrawRst
    \/ DrawDb
    \/ ExtractAround

SpecIdent == IdentInit /\ [][IdentNext]_vars

(***************************************************************************)
(* Claims about extract_features.                                          *)
(***************************************************************************)

\* C1: extract_features("") returns a map with exactly the seven keys len,
\* alpha_ratio, digit_ratio, space_ratio, upper_ratio, special_ratio and entropy,
\* each with value 0.0, and no other key.
C1_EmptyTextSevenZeros ==
    (called /\ Len(text) = 0) =>
        /\ DOMAIN features = {"len", "alpha_ratio", "digit_ratio", "space_ratio",
                              "upper_ratio", "special_ratio", "entropy"}
        /\ \A k \in DOMAIN features : features[k] = <<0, 1>>

C1_Witness == called /\ Len(text) = 0 /\ "entropy" \in DOMAIN features

\* C2: each of the features len, alpha_ratio, digit_ratio, space_ratio, upper_ratio,
\* special_ratio, vowel_ratio, repeated_pair_ratio, max_word_len, avg_word_len and
\* word_count that extract_features emits has a value in the closed interval [0, 1].
BoundedNames ==
    {"len", "alpha_ratio", "digit_ratio", "space_ratio", "upper_ratio",
     "special_ratio", "vowel_ratio", "repeated_pair_ratio", "max_word_len",
     "avg_word_len", "word_count"}

C2_RatiosInUnitInterval ==
    called =>
        \A k \in BoundedNames \cap DOMAIN features :
            /\ features[k][2] > 0
            /\ 0 <= features[k][1]
            /\ features[k][1] <= features[k][2]

\* an all-whitespace text longer than the max_word_len normalizer: the fallback branch
\* clips length / 20 to 1
C2_Witness ==
    /\ called
    /\ Len(text) > MaxWordLenNorm
    /\ \A i \in 1..Len(text) : text[i] = " "
    /\ features["max_word_len"] = <<1, 1>>
    /\ features["space_ratio"] = <<1, 1>>

\* The whole words of a text: its maximal runs of letters, digits and underscores.
WholeWords(t) ==
    {SubSeq(t, i, j) : <<i, j>> \in
        {p \in (1..Len(t)) \X (1..Len(t)) :
            /\ p[1] <= p[2]
            /\ \A k \in p[1]..p[2] : IsWordChar(t[k])
            /\ (p[1] = 1 \/ ~IsWordChar(t[p[1] - 1]))
            /\ (p[2] = Len(t) \/ ~IsWordChar(t[p[2] + 1]))}}

\* C10 as stated: for every non-empty text, has_rst is 1.0 exactly when the text
\* contains, as a whole word, three digits whose first is in 1-5, whose second is in
\* 1-9 and whose third is 1, 7, 8 or 9; otherwise has_rst is 0.0.
C10_Original ==
    (called /\ Len(text) > 0) =>
        features["has_rst"] =
            IF \E w \in WholeWords(text) :
                   /\ Len(w) = 3
                   /\ w[1] \in {"1", "2", "3", "4", "5"}
                   /\ w[2] \in {"1", "2", "3", "4", "5", "6", "7", "8", "9"}
                   /\ w[3] \in {"1", "7", "8", "9"}
            THEN <<1, 1>> ELSE <<0, 1>>

\* C10 as amended: for every non-empty text, has_rst is 1.0 exactly when the text
\* contains, as a whole word, two or three digits whose first is in 1-5, whose second
\* is in 1-9 and whose third, when there is one, is in 1-9; otherwise has_rst is 0.0.
C10_RstTwoOrThreeDigits ==
    (called /\ Len(text) > 0) =>
        features["has_rst"] =
            IF \E w \in WholeWords(text) :
                   /\ Len(w) \in {2, 3}
                   /\ w[1] \in {"1", "2", "3", "4", "5"}
                   /\ w[2] \in {"1", "2", "3", "4", "5", "6", "7", "8", "9"}
                   /\ Len(w) = 3 => w[3] \in {"1", "2", "3", "4", "5", "6", "7", "8", "9"}
            THEN <<1, 1>> ELSE <<0, 1>>

\* a two-digit report next to another word sets the flag
C10_Witness ==
    /\ called
    /\ text = <<"A", " ", "5", "9">>
    /\ features["has_rst"] = <<1, 1>>

\* C11 as stated: for every non-empty text, has_cq is 1.0 exactly when the text
\* contains the whole word CQ, has_de exactly when it contains the whole word DE and
\* has_73 exactly when it contains the whole word 73, a whole word being a maximal
\* run of letters, digits and underscores; each flag is 0.0 otherwise.
C11_Original ==
    (called /\ Len(text) > 0) =>
        /\ features["has_cq"] = Flag(<<"C", "Q">> \in WholeWords(text))
        /\ features["has_de"] = Flag(<<"D", "E">> \in WholeWords(text))
        /\ features["has_73"] = Flag(<<"7", "3">> \in WholeWords(text))

\* C11 as amended: for every non-empty text, has_cq is 1.0 exactly when the text
\* contains a whole word that is CQ in any letter case (CQ, Cq, cQ, cq), has_de
\* exactly when it contains a whole word that is DE in any letter case, and has_73
\* exactly when it contains the whole word 73; each flag is 0.0 otherwise.  The
\* scenario texts give has_cq = has_de = 1.0 and has_73 = 0.0, and has_73 = 1.0; 73
\* inside the word RR73 does not set has_73.
C11_WholeWordFlagsFoldCase ==
    /\ (called /\ Len(text) > 0) =>
           /\ features["has_cq"] = Flag(\E w \in WholeWords(text) : upper(w) = <<"C", "Q">>)
           /\ features["has_de"] = Flag(\E w \in WholeWords(text) : upper(w) = <<"D", "E">>)
           /\ features["has_73"] = Flag(<<"7", "3">> \in WholeWords(text))
    /\ (called /\ Len(text) = 23 /\ text \in ExampleTexts) =>
           /\ features["has_cq"] = One
           /\ features["has_de"] = One
           /\ features["has_73"] = Zero
    /\ (called /\ Len(text) = 12 /\ text \in ExampleTexts) => features["has_73"] = One
    /\ (called /\ text = <<"R", "R", "7", "3">>) => features["has_73"] = Zero

\* the word Cq sets has_cq although the text does not hold the word CQ
C11_Witness ==
    /\ called
    /\ text = <<"C", "q", " ", "e">>
    /\ features["has_cq"] = One
    /\ features["has_de"] = Zero
    /\ features["has_73"] = Zero

\* the names extract_features gives to its scalar features
ScalarNames ==
    {"len", "alpha_ratio", "digit_ratio", "space_ratio", "upper_ratio", "special_ratio",
     "entropy", "max_word_len", "avg_word_len", "word_count", "vowel_ratio",
     "repeated_pair_ratio", "has_callsign", "has_rst", "has_grid", "has_cq", "has_de",
     "has_73", "has_db_report", "has_rrr"}

\* the windows of n consecutive characters of U all of whose characters are
\* alphanumeric or a literal space
CountedWindows(U, n) ==
    {w \in {SubSeq(U, i, i + n - 1) : i \in 1..(Len(U) - n + 1)} :
        \A k \in 1..n : w[k] \in UpperLetters \cup LowerLetters \cup DigitChars \cup {" "}}

\* the number of positions of U at which w occurs
Occurrences(U, w) ==
    Cardinality({i \in 1..(Len(U) - Len(w) + 1) : SubSeq(U, i, i + Len(w) - 1) = w})

BiKey(w) == "bi_" \o w[1] \o w[2]

TriKey(w) == "tri_" \o w[1] \o w[2] \o w[3]

IsClipped(v, num, den) ==
    IF num >= den THEN v = <<1, 1>> ELSE v[2] > 0 /\ v[1] * den = num * v[2]

\* C16: for every non-empty text: if splitting on whitespace yields at least one word,
\* then max_word_len = min(longest word length / 20, 1), avg_word_len = min(mean word
\* length / 10, 1) and word_count = min(number of words / 20, 1); if it yields no
\* word (the text is only whitespace), then max_word_len = min(length / 20, 1),
\* avg_word_len = min(length / 10, 1) and word_count = 0, with length the character
\* count of the whole text.  The words are the maximal runs of characters that are
\* not whitespace.
C16_WordLevelFeatures ==
    (called /\ Len(text) > 0) =>
        LET length   == Len(text)
            inword   == {i \in 1..length : text[i] \notin WhitespaceChars}
            nwords   == Cardinality({i \in inword : i - 1 \notin inword})
            runs     == {L \in 0..length :
                            \E i \in 1..(length - L + 1) : \A k \in i..(i + L - 1) : k \in inword}
            longest  == CHOOSE L \in runs : \A M \in runs : M <= L
        IN  IF nwords > 0
            THEN /\ IsClipped(features["max_word_len"], longest, 20)
                 /\ IsClipped(features["avg_word_len"], Cardinality(inword), 10 * nwords)
                 /\ IsClipped(features["word_count"], nwords, 20)
            ELSE /\ inword = {}
                 /\ IsClipped(features["max_word_len"], length, 20)
                 /\ IsClipped(features["avg_word_len"], length, 10)
                 /\ features["word_count"] = <<0, 1>>

\* two words separated by a tab, of one and of two characters
C16_Witness ==
    /\ called
    /\ text = <<"A", "\t", "e", "q">>
    /\ features["max_word_len"] = <<1, 10>>
    /\ features["avg_word_len"] = <<3, 20>>
    /\ features["word_count"] = <<1, 10>>

(***************************************************************************)
(* Claims about the identifier generators and the pattern flags.           *)
(***************************************************************************)

\* the identifier stands in the text as a whole word
IdentIsWholeWord ==
    /\ (around[1] = <<>> \/ ~IsWordChar(around[1][Len(around[1])]))
    /\ (around[2] = <<>> \/ ~IsWordChar(around[2][1]))

\* C17: the identifier generators only produce strings that the feature extractor's
\* pattern flags accept: for every output c of random_callsign, any text containing c
\* has has_callsign = 1.0; for every output g of random_grid (4 or 6 characters, also
\* when uppercased or cut to 4 characters) a text containing g as a whole word has
\* has_grid = 1.0; for every output r of random_rst a text containing r as a whole
\* word has has_rst = 1.0; and for every output d of random_db a text in which d is
\* followed by a space or the end of text has has_db_report = 1.0.
C17_GeneratedIdentifiersAreFlagged ==
    ipc = "done" =>
        /\ itext = around[1] \o ident \o around[2]
        /\ kind = "random_callsign" => ifeatures["has_callsign"] = <<1, 1>>
        /\ (kind = "random_grid" /\ IdentIsWholeWord) => ifeatures["has_grid"] = <<1, 1>>
        /\ (kind = "random_rst" /\ IdentIsWholeWord) => ifeatures["has_rst"] = <<1, 1>>
        /\ (kind = "random_db" /\ around[2] \in {<<>>, <<" ">>}) =>
               ifeatures["has_db_report"] = <<1, 1>>

\* an uppercased six-character grid between two spaces
C17_Witness ==
    /\ ipc = "done"
    /\ kind = "random_grid"
    /\ itext = <<" ", "O", "R", "0", "9", "A", "X", " ">>
    /\ ifeatures["has_grid"] = <<1, 1>>

(***************************************************************************)
(* Claims about successive calls of extract_features.                      *)
(***************************************************************************)

\* C14: extract_features is a function of its input string alone: two calls with the
\* same string return maps with the same keys and the same values, whatever calls
\* on other strings happened before or between them; every call returns a map of its
\* own, and a returned map is never changed by a later call: at any later time it is
\* still the map of its string.
C14_FunctionOfInputAlone ==
    /\ \A i, j \in 1..Len(calls) :
           /\ calls[i].s = calls[j].s =>
                  /\ DOMAIN objects[calls[i].ref] = DOMAIN objects[calls[j].ref]
                  /\ \A k \in DOMAIN objects[calls[i].ref] :
                         objects[calls[i].ref][k] = objects[calls[j].ref][k]
           /\ i # j => calls[i].ref # calls[j].ref
    /\ \A i \in 1..Len(calls) : objects[calls[i].ref] = extract_features(calls[i].s)

\* two calls with the same text around a call with another text, all with n-gram keys
C14_Witness ==
    /\ Len(calls) = 3
    /\ calls[1].s = <<"A", "b">>
    /\ calls[2].s = <<"b", " ">>
    /\ calls[3].s = <<"A", "b">>
    /\ objects[calls[1].ref]["bi_AB"] = One
    /\ "bi_B " \notin DOMAIN objects[calls[3].ref]

(***************************************************************************)
(* Claims about train() and the __main__ block.                            *)
(***************************************************************************)

\* fv is what applying the fitted schema to the map fm must give
Applied(fm, fv) ==
    /\ Len(fv) = Len(fitted_schema)
    /\ \A i \in 1..Len(fv) :
           fv[i] = IF fitted_schema[i] \in DOMAIN fm THEN fm[fitted_schema[i]]
                   ELSE <<0, 1>>

\* C3: once the schema has been fitted on the training feature maps, every later
\* vectorizer.transform of any feature map leaves the schema unchanged (same names,
\* same order, same length) and returns a vector of exactly len(schema) entries whose
\* i-th entry is the map's value for schema name i when present and 0.0 when absent;
\* names of the map that are not in the schema contribute nothing.
C3_SchemaStableUnderTransform ==
    (pc \notin {"load", "extract", "vectorize"}) =>
        /\ vocabulary = fitted_schema
        /\ Len(X_test) = Len(X_test_dicts)
        /\ \A i \in 1..Len(X_test) : Applied(X_test_dicts[i], X_test[i])
        /\ Len(golden_pairs) > 0 =>
               /\ last_fm = extract_features(golden_pairs[Len(golden_pairs)].text)
               /\ Applied(last_fm, last_fv)

\* a golden text whose map holds a name outside the schema and lacks a schema name
C3_Witness ==
    /\ pc = "golden_legit"
    /\ Len(golden_pairs) > 0
    /\ \E k \in DOMAIN last_fm : \A i \in 1..Len(vocabulary) : vocabulary[i] # k
    /\ \E i \in 1..Len(vocabulary) : vocabulary[i] \notin DOMAIN last_fm
    /\ Len(last_fv) = Len(fitted_schema)

\* the decision value and the probability of label 1 of a golden pair's text, in
\* thousandths
GoldenVector(g) == DictVectorizer_transform(fitted_schema, extract_features(g.text))

GoldenDecision(g) == decision_function(model, GoldenVector(g))

GoldenP(g) == Milli(predict_proba(model, GoldenVector(g))[2])

\* C4 as stated: for every golden pair, with p the model's probability of label 1,
\* predicted_label is 1 exactly when p >= 0.5 and 0 otherwise, and confidence equals
\* max(p, 1 - p).
C4_Original ==
    \A i \in 1..Len(golden_pairs) :
        LET g == golden_pairs[i]
            p == GoldenP(g)
        IN  /\ g.predicted_label = IF p >= 500 THEN 1 ELSE 0
            /\ Milli(g.confidence) = IF p >= 1000 - p THEN p ELSE 1000 - p

\* C4 as amended: predicted_label is 1 exactly when the decision value w.x + b is
\* positive, where p >= 0.5, and 0 otherwise, where p <= 0.5 (so a tie p = 0.5 at a
\* zero decision value gives label 0); confidence equals max(p, 1 - p), hence lies
\* in [0.5, 1.0] and is the probability of the predicted label.
C4_LabelBySignOfDecision ==
    \A i \in 1..Len(golden_pairs) :
        LET g == golden_pairs[i]
            z == GoldenDecision(g)
            p == GoldenP(g)
            c == Milli(g.confidence)
        IN  /\ g.predicted_label = IF z > 0 THEN 1 ELSE 0
            /\ g.predicted_label = 1 => p >= 500
            /\ g.predicted_label = 0 => p <= 500
            /\ (z = 0) => (p = 500 /\ g.predicted_label = 0)
            /\ c = IF p >= 1000 - p THEN p ELSE 1000 - p
            /\ 500 <= c /\ c <= 1000
            /\ c = IF g.predicted_label = 1 THEN p ELSE 1000 - p

\* a tie: the decision value of a golden text is zero, its p is 0.5, its label is 0
\* and its confidence is 0.5
C4_Witness ==
    \E i \in 1..Len(golden_pairs) :
        /\ GoldenDecision(golden_pairs[i]) = 0
        /\ GoldenP(golden_pairs[i]) = 500
        /\ golden_pairs[i].predicted_label = 0
        /\ golden_pairs[i].confidence = <<1, 2>>

BelowTarget == accuracy[1] * 20 < 19 * accuracy[2]

\* C5: a measured test accuracy below 0.95 does not stop the pipeline: the model is
\* exported, the compiler runs and, when it succeeds, the golden pairs are written;
\* the process then exits with a non-zero status; when the compile step succeeds,
\* the exit status is 0 exactly when accuracy >= 0.95.
C5_LowAccuracyRunsOnAndFails ==
    /\ (pc \notin {"load", "extract", "vectorize", "fit", "evaluate"} /\ BelowTarget) =>
           "WARNING: Accuracy is below 95% target!" \in output
    /\ (pc = "done" /\ BelowTarget) =>
           /\ disk[MLMODEL] = "new"
           /\ returncode \in {0, 1}
           /\ returncode = 0 =>
                  /\ disk[GOLDEN] = "new"
                  /\ Len(golden_pairs) = Len(legit_samples) + Len(garbage_samples)
           /\ exit_status > 0
    /\ (pc = "done" /\ returncode = 0) => (exit_status = 0 <=> ~BelowTarget)

\* a run with accuracy 18/20 whose compile step succeeded: everything is written and
\* the status is 1
C5_Witness ==
    /\ pc = "done"
    /\ accuracy = <<9, 10>>
    /\ returncode = 0
    /\ disk[MLMODEL] = "new" /\ disk[COMPILED] = "new" /\ disk[GOLDEN] = "new"
    /\ exit_status = 1

\* C6: when the compiler returns a non-zero status, the pipeline aborts at that point
\* with a non-zero exit status after reporting the tool's error output, and no later
\* step runs: the golden pairs are never computed nor written in that run (the
\* fixture is written only after a successful compile).
C6_CompileFailureAborts ==
    /\ (returncode > 0 /\ pc # "check") =>
           /\ pc = "done"
           /\ exit_status > 0
           /\ "coremlcompiler failed: <stderr>" \in output
    /\ returncode > 0 => (disk[GOLDEN] # "new" /\ Len(golden_pairs) = 0)
    /\ disk[GOLDEN] = "new" => returncode = 0

C6_Witness ==
    /\ pc = "done"
    /\ returncode = 1
    /\ exit_status = 1
    /\ "coremlcompiler failed: <stderr>" \in output
    /\ disk[GOLDEN] = "old"

\* C7: when the compiler fails, no partial artifacts are left in place: after the
\* aborted run no artifact written by that run (the saved intermediate model file, a
\* compiled model, a fixture) remains on disk.
C7_NoArtifactOfFailedRunRemains ==
    (pc = "done" /\ returncode > 0) => \A p \in Paths : disk[p] # "new"

(***************************************************************************)
(* Claims about gen_garbage_corrupted.                                     *)
(***************************************************************************)

C13_NoLineBreakPersisted ==
    wrote =>
        /\ Len(written_rows) = Len(to_write)
        /\ \A k \in 1..Len(to_write) :
               LET before == to_write[k].text
                   after  == written_rows[k].text
               IN  /\ Len(after) = Len(before)
                   /\ \A i \in 1..Len(after) :
                          /\ after[i] \notin {"\n", "\r"}
                          /\ before[i] \in {"\n", "\r"} => after[i] = " "
                          /\ before[i] \notin {"\n", "\r"} => after[i] = before[i]
                   /\ written_rows[k].label = to_write[k].label

\* a text holding a newline, a carriage return and another character
C13_Witness ==
    /\ wrote
    /\ Len(to_write) = 1
    /\ to_write[1].text = <<"a", "\n", "\r", "a">>
    /\ written_rows[1].text = <<"a", " ", " ", "a">>

(***************************************************************************)
(* Claims about generate_dataset.                                          *)
(***************************************************************************)

\* the multiset of the entries of a sequence
BagOf(s) ==
    [x \in {s[i] : i \in DOMAIN s} |-> Cardinality({i \in DOMAIN s : s[i] = x})]

\* the tuple (text, label) of a sample, as a table row holds it
AsRow(s) == [i \in DOMAIN s |-> [text |-> s[i].text, label |-> s[i].label]]

\* the size of the corpus under the source's own loop counts
CorpusSize == RTTY_PASSES + PSK_PASSES + FT8_PASSES + RATTLEGRAM_PASSES + TOTAL_GARBAGE

AfterShuffle == gpc \in {"split", "write_train", "write_test", "done"}

AfterSplit == gpc \in {"write_train", "write_test", "done"}

\* C8: generate_dataset shuffles the combined sample list exactly once and splits it
\* without re-shuffling: the train table is the first int(0.8 * len) samples of the
\* shuffled sequence in that order (80,000 of the 100,000 of the source's counts),
\* the test table is the remaining ones in that order (20,000), and every generated
\* sample occurrence lands in exactly one of the two tables: the multiset of train
\* plus test rows equals the multiset of the generated samples.
C8_ShuffledOnceSplitInOrder ==
    /\ shuffles = IF AfterShuffle THEN 1 ELSE 0
    /\ AfterShuffle => BagOf(samples) = BagOf(generated)
    /\ AfterSplit =>
           LET k == (4 * Len(samples)) \div 5
           IN  /\ train = [i \in 1..k |-> samples[i]]
               /\ test = [i \in 1..(Len(samples) - k) |-> samples[k + i]]
               /\ BagOf(train \o test) = BagOf(generated)
    /\ gpc = "done" =>
           /\ files[TRAIN_CSV].rows = AsRow(train)
           /\ files[TEST_CSV].rows = AsRow(test)
           /\ BagOf(files[TRAIN_CSV].rows \o files[TEST_CSV].rows)
                  = BagOf(AsRow(generated))
    /\ CorpusSize = 100000
    /\ split_index(CorpusSize) = 80000
    /\ CorpusSize - split_index(CorpusSize) = 20000

\* a finished run whose shuffle changed the order, whose length is no multiple of
\* five and whose two tables both hold rows
C8_Witness ==
    /\ gpc = "done"
    /\ samples # generated
    /\ (4 * Len(samples)) % 5 # 0
    /\ Len(files[TRAIN_CSV].rows) >= 2
    /\ Len(files[TEST_CSV].rows) >= 1
    /\ files[TRAIN_CSV].written /\ files[TEST_CSV].written

LegitGenerators == {"gen_rtty", "gen_psk", "gen_ft8", "gen_rattlegram"}

\* every entry of s carries the label of the generator that produced it
LabelledByGenerator(s) ==
    \A i \in DOMAIN s :
        /\ s[i].by \in LegitGenerators => s[i].label = 1
        /\ s[i].by = "gen_garbage" => s[i].label = 0

\* the number of entries of s with label l
Labelled(s, l) == Cardinality({i \in DOMAIN s : s[i].label = l})

\* the number of entries of s produced by generator g
ProducedBy(s, g) == Cardinality({i \in DOMAIN s : s[i].by = g})

LegitPasses ==
    counts["gen_rtty"] + counts["gen_psk"] + counts["gen_ft8"] + counts["gen_rattlegram"]

\* C9: every sample produced by an RTTY, PSK31, FT8 or rattlegram generator carries
\* label 1 and every sample produced by a garbage generator carries label 0; the
\* corpus holds as many label-1 samples as the four legitimate loops make passes
\* (12,000 + 12,000 + 16,000 + 10,000 = 50,000 in the source) and as many label-0
\* samples as the garbage loop makes passes (50,000); shuffling and splitting never
\* change a sample's label, so the label-1 rows of train and test together number the
\* label-1 samples generated.
C9_LabelsFollowGenerator ==
    /\ LabelledByGenerator(samples)
    /\ LabelledByGenerator(train)
    /\ LabelledByGenerator(test)
    /\ gpc \in {"shuffle", "split", "write_train", "write_test", "done"} =>
           /\ Labelled(samples, 1) = LegitPasses
           /\ Labelled(samples, 0) = counts["gen_garbage"]
           /\ \A g \in GeneratorNames : ProducedBy(samples, g) = counts[g]
    /\ AfterSplit =>
           /\ Labelled(train, 1) + Labelled(test, 1) = LegitPasses
           /\ Labelled(train, 0) + Labelled(test, 0) = counts["gen_garbage"]
           /\ \A g \in GeneratorNames :
                  ProducedBy(train, g) + ProducedBy(test, g) = counts[g]
    /\ gpc = "done" =>
           /\ Labelled(files[TRAIN_CSV].rows, 1) + Labelled(files[TEST_CSV].rows, 1)
                  = LegitPasses
           /\ Labelled(files[TRAIN_CSV].rows, 0) + Labelled(files[TEST_CSV].rows, 0)
                  = counts["gen_garbage"]
    /\ RTTY_PASSES + PSK_PASSES + FT8_PASSES + RATTLEGRAM_PASSES = 50000
    /\ TOTAL_GARBAGE = 50000

\* a finished run in which a legitimate generator and the garbage generator returned
\* the same text: the shuffle moved the garbage sample ahead of the legitimate one,
\* the two rows sit in different tables, each with the label of its generator
C9_Witness ==
    /\ gpc = "done"
    /\ \E i \in DOMAIN train, j \in DOMAIN test :
           /\ train[i].by = "gen_garbage"
           /\ test[j].by = "gen_ft8"
           /\ train[i].text = test[j].text
           /\ files[TRAIN_CSV].rows[i].label = 0
           /\ files[TEST_CSV].rows[j].label = 1
    /\ Labelled(files[TRAIN_CSV].rows, 1) >= 1

====
